---- MODULE Spec2Model ----
(***************************************************************************)
(* A model of the caffeine tracker's CaffeineCalculator component          *)
(* (src/src/components/CaffeineCalculator.tsx) and of the caffeine_entries *)
(* table it reads and writes.                                              *)
(*                                                                         *)
(* Time.  A Date is modelled by its time value in whole hours since        *)
(* 1970-01-01T00:00 of the local wall clock (the code's Dates carry        *)
(* milliseconds; every instant of the model lies on whole hours).  The     *)
(* calendar arithmetic is ECMAScript's (DayFromYear, MakeDay, ...), so a   *)
(* year is 365 or 366 days as in the code.                                 *)
(*                                                                         *)
(* Numbers.  remainingCaffeine is a double in the code.  The model keeps   *)
(* a double as the pair [m, e] that stands for m * 2^-e mg, with m odd     *)
(* (or 0), and writes only doubles it can write exactly.  Every instant    *)
(* and every entry of the model lies a whole number of half-lives (6 h)    *)
(* from the others, and every amount is a whole number, so a contribution  *)
(* amount * 0.5^(h/6) is amount * 2^-n for a whole n: the double holds it  *)
(* exactly down to the subnormal 2^-1074, and Math.pow gives exactly 0     *)
(* from n = 1075 on.  After any other number of hours the contribution is  *)
(* a double rounded by Math.pow, which the model does not write: Decayed   *)
(* has no value there and no instant of the model leads there.             *)
(*                                                                         *)
(* Rendering.  A setState of a handler is taken as committed when the      *)
(* handler runs; the effect of lines 47-49, which React runs after the     *)
(* commit, is an action of its own (RecalcEffect).                         *)
(*                                                                         *)
(* The user.  The component is rendered for a signed-in user only, so the  *)
(* `!user` guards of lines 42, 79 and 112 never hold and are left out.     *)
(* Daylight saving is left out: tz is fixed during a session.              *)
(***************************************************************************)
EXTENDS Integers, Sequences, FiniteSets, TLC

VARIABLES
    currentTime,        \* useState(new Date()), line 22
    entries,            \* useState<CaffeineEntry[]>([]), line 23
    newEntry,           \* the form's state, lines 24-28
    remainingCaffeine,  \* useState(0), line 30, a double [m, e]: m * 2^-e mg
    loading,            \* useState(false), line 31
    mounted,            \* whether the component is mounted
    timers,             \* the intervals registered and not cleared, lines 34-38
    tz,                 \* the browser's UTC offset in hours (local = UTC + tz)
    db,                 \* the rows of public.caffeine_entries of this user
    loadCall,           \* the loadEntries() call of lines 43 and 78-109
    addCall,            \* the addEntry() call in flight, lines 111-166
    lastAdded,          \* newEntryData of the addEntry that succeeded, lines 142-147
    clock,              \* the wall clock that new Date() reads, lines 35 and 118
    effectPending,      \* the effect of lines 47-49 is due: a dependency changed
    adds                \* how many addEntry calls have succeeded, lines 141-155

vars == <<currentTime, entries, newEntry, remainingCaffeine, loading, mounted,
          timers, tz, db, loadCall, addCall, lastAdded, clock, effectPending,
          adds>>

(***************************************************************************)
(* Bounds of the model.                                                    *)
(***************************************************************************)
\* The wall clock advances at most this many half-lives past StartTime.
MaxTicks == 2
\* The longest entry list the estimator is given in SpecCalc.
MaxEntries == 2
\* The rows the table holds when the session starts, unless it is empty.
MaxStoredRows == 3
\* The most addEntry calls that succeed in a session.
MaxAdds == 2

(***************************************************************************)
(* ECMAScript calendar arithmetic behind new Date(...), getFullYear(),     *)
(* setFullYear(), toISOString() and toLocaleDateString().                  *)
(***************************************************************************)
\* The half-life of lines 67-70, in hours.
HALF_LIFE == 6

IsLeapYear(y) == (y % 4 = 0) /\ ((y % 100 # 0) \/ (y % 400 = 0))

\* Day number of January 1st of year y, counted from 1970-01-01.
DayFromYear(y) ==
    365 * (y - 1970) + ((y - 1969) \div 4) - ((y - 1901) \div 100)
        + ((y - 1601) \div 400)

\* Days of year y before the first of month m (m in 1..13).
DaysBeforeMonth(y, m) ==
    LET base == <<0, 31, 59, 90, 120, 151, 181, 212, 243, 273, 304, 334, 365>>
    IN  base[m] + (IF m > 2 /\ IsLeapYear(y) THEN 1 ELSE 0)

\* MakeDay: a day of the month past the month's end runs into the next month.
MakeDay(y, m, d) == DayFromYear(y) + DaysBeforeMonth(y, m) + d - 1

MakeDate(y, m, d, h) == MakeDay(y, m, d) * 24 + h

Day(t) == t \div 24

HourFromTime(t) == t % 24

YearFromTime(t) ==
    CHOOSE y \in (1970 + Day(t) \div 366)..(1970 + Day(t) \div 365) :
        DayFromYear(y) <= Day(t) /\ Day(t) < DayFromYear(y + 1)

DayWithinYear(t) == Day(t) - DayFromYear(YearFromTime(t))

\* The month (1..12) holding day n (from 0) of year y.
MonthOfYearDay(y, n) ==
    CHOOSE m \in 1..12 :
        DaysBeforeMonth(y, m) <= n /\ n < DaysBeforeMonth(y, m + 1)

MonthFromTime(t) == MonthOfYearDay(YearFromTime(t), DayWithinYear(t))

DateFromTime(t) ==
    LET y == YearFromTime(t)
        n == Day(t) - DayFromYear(y)
    IN  n - DaysBeforeMonth(y, MonthOfYearDay(y, n)) + 1

(***************************************************************************)
(* calculateRemainingCaffeine, lines 51-76.                                *)
(***************************************************************************)
\* Whether new Date(`${year}/${entry.date} ${entry.time}`) is a valid Date:
\* the parser takes a month 1..12, a day 1..31 and an hour 0..23, or 24:00
\* (midnight of the next day), and gives Invalid Date (time value NaN) for
\* anything else.
DateParses(entry) ==
    /\ entry.date.month \in 1..12
    /\ entry.date.day \in 1..31
    /\ entry.time \in 0..24

\* Line 57: the entry's month/day/time in now's calendar year.
CandidateDate(entry, now) ==
    MakeDate(YearFromTime(now), entry.date.month, entry.date.day, entry.time)

\* Line 61: entryDate.setFullYear(entryDate.getFullYear() - 1), which rebuilds
\* the date from the year before and the candidate's own month, day and time.
SetFullYearBack(t) ==
    LET y == YearFromTime(t)
        n == Day(t) - DayFromYear(y)
        m == MonthOfYearDay(y, n)
    IN  MakeDate(y - 1, m, n - DaysBeforeMonth(y, m) + 1, HourFromTime(t))

RollBackNever(cand, now) == cand

RollBackMutant(cand, now) == IF cand >= now THEN SetFullYearBack(cand) ELSE cand

\* Lines 60-62.
RollBack(cand, now) == IF cand > now THEN SetFullYearBack(cand) ELSE cand

\* entryDate after lines 57-62, for an entry that parses.
EntryDate(entry, now) == RollBack(CandidateDate(entry, now), now)

\* Line 65, in hours.
HoursElapsed(entry, now) == now - EntryDate(entry, now)

Pow2(n) == 2 ^ n

(***************************************************************************)
(* Doubles.  [m, e] stands for m * 2^-e; Norm keeps m odd, so that equal   *)
(* doubles are equal pairs.                                                *)
(***************************************************************************)
\* The double 0, as in useState(0) and let total = 0.
Zero == [m |-> 0, e |-> 0]

RECURSIVE Norm(_, _)
\* The pair of m * 2^-e.
Norm(m, e) ==
    IF m = 0 THEN Zero
    ELSE IF m % 2 = 0 THEN Norm(m \div 2, e - 1)
    ELSE [m |-> m, e |-> e]

\* Whether the mantissa has fewer than w binary digits.
Within(m, w) == m > 0 - Pow2(w) /\ m < Pow2(w)

\* total += ..., line 70: the sum of two doubles x and y, the exponent of y
\* being d above that of x.  When the sum written at the exponent of y has
\* fewer than 30 binary digits, the double holds it exactly; when d is 90 or
\* more, y is less than half a unit in the last place of x and the sum
\* rounds to x.  The CASE has no branch for the sums between, which would be
\* rounded: the lists of the model never lead there.
AddSmaller(x, y, d) ==
    CASE d <= 29 /\ Within(x.m, 29 - d) /\ Within(y.m, 29) ->
            Norm(x.m * Pow2(d) + y.m, y.e)
      [] d >= 90 /\ Within(x.m, 29) /\ Within(y.m, 29) -> x

\* total += ..., line 70.
Add(x, y) ==
    IF x.m = 0 THEN y
    ELSE IF y.m = 0 THEN x
    ELSE IF y.e >= x.e THEN AddSmaller(x, y, y.e - x.e)
    ELSE AddSmaller(y, x, x.e - y.e)

\* floor(m / 2^d) for a mantissa of fewer than 30 binary digits.
Shr(m, d) == IF d > 30 THEN (IF m < 0 THEN 0 - 1 ELSE 0) ELSE m \div Pow2(d)

\* x < y for doubles.
Less(x, y) ==
    IF x.e >= y.e THEN Shr(x.m, x.e - y.e) < y.m
    ELSE x.m < 0 - Shr(0 - y.m, y.e - x.e)

HalfLivesMutant(h) ==
    [whole |-> h \div (HALF_LIFE \div 2), sixths |-> 0]

\* hoursElapsed / 6 of line 70: the whole half-lives and the sixths left over.
HalfLives(h) == [whole |-> h \div HALF_LIFE, sixths |-> h % HALF_LIFE]

\* amount * Math.pow(0.5, n) of line 70 for a whole-number amount.
\* Math.pow(0.5, n) is 0 from n = 1075 on; for a whole n up to 1074 it is
\* exactly 2^-n, down to the smallest subnormal 2^-1074, and the product
\* with a whole number is exact.  The CASE has no branch for the other n,
\* where hoursElapsed / 6 is rounded and Math.pow, which ECMAScript leaves
\* implementation-approximated, returns a rounded double.
Decayed(amount, n) ==
    CASE n.whole >= 1075 -> Zero
      [] n.whole <= 1074 /\ n.sixths = 0 -> Norm(amount, n.whole)

EntryRemainingMutant(entry, now) ==
    IF ~DateParses(entry) THEN Decayed(entry.amount, HalfLives(0))
    ELSE IF HoursElapsed(entry, now) >= 0
        THEN Decayed(entry.amount, HalfLives(HoursElapsed(entry, now)))
        ELSE Zero

\* Lines 57-72 for one entry: what it adds to total.  An entry that does not
\* parse has hoursElapsed = NaN, NaN >= 0 is false, and nothing is added.
EntryRemaining(entry, now) ==
    LET hoursElapsed == HoursElapsed(entry, now)
    IN  IF DateParses(entry) /\ hoursElapsed >= 0
            THEN Decayed(entry.amount, HalfLives(hoursElapsed))
            ELSE Zero

RECURSIVE SumFrom(_, _, _)
\* The forEach of lines 55-73 from a running total on: the entries are added
\* in the order of the list.
SumFrom(total, es, now) ==
    IF es = <<>> THEN total
    ELSE SumFrom(Add(total, EntryRemaining(Head(es), now)), Tail(es), now)

\* total after the forEach of lines 55-73, from let total = 0 of line 53.
SumRemaining(es, now) == SumFrom(Zero, es, now)

ClampMutant(total) == total

\* Math.max(0, total), line 75.
Clamp(total) == IF total.m > 0 THEN total ELSE Zero

\* The value calculateRemainingCaffeine stores, line 75.
CalculateRemainingCaffeine(es, now) == Clamp(SumRemaining(es, now))

(***************************************************************************)
(* getCaffeineLevel, lines 202-208.                                        *)
(***************************************************************************)
\* The double of a whole number of mg.
Mg(x) == Norm(x, 0)

LevelMutant(r) ==
    IF ~Less(r, Mg(200)) THEN "Very High"
    ELSE IF ~Less(r, Mg(100)) THEN "High"
    ELSE IF ~Less(r, Mg(50)) THEN "Moderate"
    ELSE IF ~Less(r, Mg(10)) THEN "Low"
    ELSE "Minimal"

Level(r) ==
    IF Less(Mg(200), r) THEN "Very High"
    ELSE IF Less(Mg(100), r) THEN "High"
    ELSE IF Less(Mg(50), r) THEN "Moderate"
    ELSE IF Less(Mg(10), r) THEN "Low"
    ELSE "Minimal"

getCaffeineLevel == Level(remainingCaffeine)

(***************************************************************************)
(* The wall clock, the periodic tick of lines 33-39, and the effect of     *)
(* lines 47-49 that recomputes the residual after entries or currentTime   *)
(* changed.                                                                *)
(***************************************************************************)
\* The first instant of the model: 2023-12-31 18:00, local time.
StartTime == MakeDate(2023, 12, 31, 18)

EndTime == StartTime + MaxTicks * HALF_LIFE

\* The instants the wall clock can reach after t: whole half-lives from
\* StartTime.
LaterInstants(t) ==
    {u \in (t + 1)..EndTime : (u - StartTime) % HALF_LIFE = 0}

\* Time passes.
ClockAdvance ==
    /\ \E t \in LaterInstants(clock) : clock' = t
    /\ UNCHANGED <<currentTime, entries, newEntry, remainingCaffeine, loading,
                   mounted, timers, tz, db, loadCall, addCall, lastAdded,
                   effectPending, adds>>

\* The interval's callback, line 35: setCurrentTime(new Date()).  It runs
\* while the interval is registered; the new Date is a new dependency of the
\* effect of lines 47-49 whether or not the instant changed, and
\* setCurrentTime changes nothing once the component is unmounted.
Tick ==
    /\ timers > 0
    /\ IF mounted
        THEN /\ currentTime' = clock
             /\ effectPending' = TRUE
        ELSE UNCHANGED <<currentTime, effectPending>>
    /\ UNCHANGED <<entries, newEntry, remainingCaffeine, loading, mounted,
                   timers, tz, db, loadCall, addCall, lastAdded, clock,
                   adds>>

\* The effect of lines 47-49 runs calculateRemainingCaffeine over the entries
\* and currentTime of the render, and line 75 stores the result.
RecalcEffect ==
    /\ mounted
    /\ effectPending
    /\ remainingCaffeine' = CalculateRemainingCaffeine(entries, currentTime)
    /\ effectPending' = FALSE
    /\ UNCHANGED <<currentTime, entries, newEntry, loading, mounted, timers,
                   tz, db, loadCall, addCall, lastAdded, clock, adds>>

\* The empty form, lines 24-28 and 150: '' is the empty sequence, a value
\* typed into a field is a sequence of one.
NoEntry == [date |-> <<>>, time |-> <<>>, amount |-> <<>>]

IdleAdd == [st |-> "idle"]

NoneAdded == [id |-> 0]

(***************************************************************************)
(* SpecCalc: the estimator on its own.  The entry list is any list of at   *)
(* most MaxEntries entries, held fixed; time passes, the clock ticks and   *)
(* the effect recomputes the residual.                                     *)
(***************************************************************************)
\* Entries that parse: 12/31 18:00 (StartTime) with negative, zero and
\* positive amounts; 01/01 00:00 and 06:00; 12/31 24:00, which is
\* 01/01 00:00 of the year after; and 04/07 12:00, which is 1073 half-lives
\* before StartTime.
CalcParsing ==
    [id : {0}, date : {[month |-> 12, day |-> 31]}, time : {18},
     amount : {0 - 100, 0, 10, 100, 200}]
    \cup
    [id : {0}, date : {[month |-> 1, day |-> 1]}, time : {0, 6}, amount : {100}]
    \cup
    {[id |-> 0, date |-> [month |-> 12, day |-> 31], time |-> 24, amount |-> 100],
     [id |-> 0, date |-> [month |-> 4, day |-> 7], time |-> 12, amount |-> 100]}

\* Entries that do not parse: the date 13/45, and the time 25:00.
CalcMalformed ==
    {[id |-> 0, date |-> [month |-> 13, day |-> 45], time |-> 12, amount |-> 100],
     [id |-> 0, date |-> [month |-> 12, day |-> 31], time |-> 25, amount |-> 100]}

CalcEntries == CalcParsing \cup CalcMalformed

CalcLists == UNION {[1..n -> CalcEntries] : n \in 0..MaxEntries}

\* The first render over a given list: the residual is still useState(0) and
\* the effect of lines 47-49 is due.
InitCalc ==
    /\ currentTime = StartTime
    /\ clock = StartTime
    /\ entries \in CalcLists
    /\ remainingCaffeine = Zero
    /\ effectPending = TRUE
    /\ newEntry = NoEntry
    /\ loading = FALSE
    /\ mounted = TRUE
    /\ timers = 1
    /\ tz = 0
    /\ db = {}
    /\ loadCall = [st |-> "done", ok |-> FALSE]
    /\ addCall = IdleAdd
    /\ lastAdded = NoneAdded
    /\ adds = 0

NextCalc ==
    \/ ClockAdvance
    \/ Tick
    \/ RecalcEffect

SpecCalc == InitCalc /\ [][NextCalc]_vars

(***************************************************************************)
(* Claims about the estimator, checked under SpecCalc.                     *)
(***************************************************************************)
Indices == 1..Len(entries)

\* The effect has run since entries or currentTime last changed.
Recomputed == mounted /\ ~effectPending

\* What the effect stores is what calculateRemainingCaffeine computes.
StoredIsComputed ==
    Recomputed =>
        remainingCaffeine = CalculateRemainingCaffeine(entries, currentTime)

AllParsePositive ==
    \A i \in Indices : DateParses(entries[i]) /\ entries[i].amount > 0

\* A tick that holds a non-empty list of parsing, positive entries fixed.
DecayStep ==
    /\ entries' = entries
    /\ entries # <<>>
    /\ AllParsePositive
    /\ currentTime' > currentTime

\* The tick passes no entry's month/day/time: every entry keeps its timestamp.
SameEntryDates ==
    \A i \in Indices :
        EntryDate(entries[i], currentTime') = EntryDate(entries[i], currentTime)

\* Every entry is a whole number of half-lives old at now.
WholeHalfLives(now) ==
    \A i \in Indices :
        DateParses(entries[i]) =>
            HalfLives(HoursElapsed(entries[i], now)).sixths = 0

C2_YearInference ==
    \A i \in Indices :
        DateParses(entries[i]) =>
            LET e == entries[i]
                cand == MakeDate(YearFromTime(currentTime), e.date.month,
                                 e.date.day, e.time)
                used == EntryDate(e, currentTime)
            IN  /\ used <= currentTime
                /\ HoursElapsed(e, currentTime) >= 0
                /\ (cand <= currentTime => used = cand)
                /\ (cand > currentTime =>
                        /\ YearFromTime(used) = YearFromTime(cand) - 1
                        /\ MonthFromTime(used) = MonthFromTime(cand)
                        /\ DateFromTime(used) = DateFromTime(cand)
                        /\ HourFromTime(used) = HourFromTime(cand))
                /\ (e.time < 24 =>
                        /\ MonthFromTime(used) = e.date.month
                        /\ DateFromTime(used) = e.date.day
                        /\ HourFromTime(used) = e.time
                        /\ YearFromTime(cand) = YearFromTime(currentTime))

\* After a tick and the recomputation: one entry whose candidate is now
\* itself and one whose candidate is later.
C2_Witness ==
    /\ Recomputed
    /\ currentTime > StartTime
    /\ Len(entries) = 2
    /\ DateParses(entries[1]) /\ DateParses(entries[2])
    /\ CandidateDate(entries[1], currentTime) = currentTime
    /\ CandidateDate(entries[2], currentTime) > currentTime
    /\ EntryDate(entries[2], currentTime) < currentTime

\* C3: the stored residual is never negative, whatever the amounts' signs and
\* whether or not the entries parse; once recomputed it is the signed sum of
\* the contributions when that sum is not negative, and 0 otherwise.
C3_NonNegative ==
    /\ ~Less(remainingCaffeine, Zero)
    /\ Recomputed =>
          LET total == SumRemaining(entries, currentTime)
          IN  remainingCaffeine = IF ~Less(total, Zero) THEN total ELSE Zero

\* After a tick, a negative amount outweighs a positive one and the sum is
\* clamped to 0.
C3_Witness ==
    /\ Recomputed
    /\ currentTime > StartTime
    /\ Len(entries) = 2
    /\ DateParses(entries[1]) /\ DateParses(entries[2])
    /\ entries[1].amount < 0
    /\ entries[2].amount > 0
    /\ Less(SumRemaining(entries, currentTime), Zero)
    /\ remainingCaffeine = Zero

\* Twice the double x.
Twice(x) == Norm(2 * x.m, x.e)

\* A tick one half-life on over a single entry that keeps its timestamp.
HalfLifeStep ==
    /\ Len(entries) = 1
    /\ entries' = entries
    /\ DateParses(entries[1])
    /\ currentTime' = currentTime + HALF_LIFE
    /\ SameEntryDates

\* A single entry that parses, recomputed at elapsed time 0.
AtZero ==
    /\ Recomputed
    /\ Len(entries) = 1
    /\ DateParses(entries[1])
    /\ HoursElapsed(entries[1], currentTime) = 0

\* C4 as stated: for a single entry and any elapsed time, the residual
\* computed one half-life (6 h) later is exactly half the residual before,
\* and at elapsed time 0 the residual is the entry's amount.
C4_ExactHalfAlways ==
    /\ [](AtZero => remainingCaffeine = Mg(entries[1].amount))
    /\ [][HalfLifeStep =>
            Twice(CalculateRemainingCaffeine(entries, currentTime'))
                = CalculateRemainingCaffeine(entries, currentTime)]_vars

\* C4 as amended: for a single entry with a whole-number amount that is not
\* negative, the residual at elapsed time 0 is the amount; when the entry is
\* a whole number n of half-lives old, the residual is amount * 2^-n up to
\* n = 1074 and 0 from n = 1075 on, so that the residual one half-life (6 h)
\* later is exactly half the residual before up to 1074 half-lives, and 0
\* after that.
C4_HalfLife ==
    /\ []((AtZero /\ entries[1].amount >= 0) =>
            remainingCaffeine = Mg(entries[1].amount))
    /\ []((/\ Recomputed
           /\ Len(entries) = 1
           /\ DateParses(entries[1])
           /\ entries[1].amount >= 0
           /\ WholeHalfLives(currentTime)) =>
            LET n == HalfLives(HoursElapsed(entries[1], currentTime)).whole
            IN  remainingCaffeine =
                    IF n <= 1074 THEN Norm(entries[1].amount, n) ELSE Zero)
    /\ [][(/\ HalfLifeStep
           /\ entries[1].amount >= 0
           /\ WholeHalfLives(currentTime)) =>
            LET before == CalculateRemainingCaffeine(entries, currentTime)
                after == CalculateRemainingCaffeine(entries, currentTime')
                n == HalfLives(HoursElapsed(entries[1], currentTime)).whole
            IN  /\ (n + 1 <= 1074 => Twice(after) = before)
                /\ (n + 1 >= 1075 => after = Zero)]_vars

\* 100 mg recomputed 1074 half-lives after it was taken: the subnormal
\* 100 * 2^-1074 mg, exactly half the residual of one half-life before.
C4_Witness ==
    /\ Recomputed
    /\ Len(entries) = 1
    /\ DateParses(entries[1])
    /\ entries[1].amount = 100
    /\ HoursElapsed(entries[1], currentTime) = 1074 * HALF_LIFE
    /\ currentTime > StartTime
    /\ remainingCaffeine = Norm(100, 1074)
    /\ Twice(remainingCaffeine)
           = CalculateRemainingCaffeine(entries, currentTime - HALF_LIFE)

\* The list es without its i-th entry.
Without(es, i) == SubSeq(es, 1, i - 1) \o SubSeq(es, i + 1, Len(es))

\* C5: an entry whose date/time does not parse adds nothing: the residual
\* stored is the residual of the list without it, and the others are still
\* summed.
C5_SkipMalformed ==
    Recomputed =>
        \A i \in Indices :
            ~DateParses(entries[i]) =>
                remainingCaffeine =
                    CalculateRemainingCaffeine(Without(entries, i), currentTime)

\* A malformed entry with a positive amount before a parsing one that counts.
C5_Witness ==
    /\ Recomputed
    /\ currentTime > StartTime
    /\ Len(entries) = 2
    /\ ~DateParses(entries[1])
    /\ entries[1].amount > 0
    /\ DateParses(entries[2])
    /\ remainingCaffeine = Mg(100)

\* C6: the label is 'Very High' above 200 mg, else 'High' above 100, else
\* 'Moderate' above 50, else 'Low' above 10, else 'Minimal'; the thresholds
\* are strict, so exactly 200, 100, 50 and 10 get the label below.
C6_Classification ==
    LET r == remainingCaffeine
        l == getCaffeineLevel
    IN  /\ Less(Mg(200), r) <=> (l = "Very High")
        /\ (Less(Mg(100), r) /\ ~Less(Mg(200), r)) <=> (l = "High")
        /\ (Less(Mg(50), r) /\ ~Less(Mg(100), r)) <=> (l = "Moderate")
        /\ (Less(Mg(10), r) /\ ~Less(Mg(50), r)) <=> (l = "Low")
        /\ ~Less(Mg(10), r) <=> (l = "Minimal")
        /\ (r = Mg(150) => l = "High")
        /\ (r = Mg(200) => l = "High")
        /\ (r = Mg(100) => l = "Moderate")
        /\ (r = Mg(50) => l = "Low")
        /\ (r = Mg(10) => l = "Minimal")

\* After a tick and the recomputation, a residual of exactly 100 mg.
C6_Witness ==
    /\ Recomputed
    /\ currentTime > StartTime
    /\ remainingCaffeine = Mg(100)
    /\ getCaffeineLevel = "Moderate"

(***************************************************************************)
(* The table public.caffeine_entries and the dates written to and read     *)
(* from it.                                                                *)
(***************************************************************************)
\* Lines 119 and 125: local midnight of month/day of year y, converted with
\* toISOString() (UTC = local - tz) and cut to its date part.
ToISODatePart(y, date) ==
    LET utc == MakeDate(y, date.month, date.day, 0) - tz
    IN  [year |-> YearFromTime(utc), month |-> MonthFromTime(utc),
         day |-> DateFromTime(utc)]

\* Line 100: new Date("YYYY-MM-DD") is midnight UTC of that date, and
\* toLocaleDateString gives its month and day on the local clock.
ToLocaleMonthDay(d) ==
    LET local == MakeDate(d.year, d.month, d.day, 0) + tz
    IN  [month |-> MonthFromTime(local), day |-> DateFromTime(local)]

\* Lines 98-103: a row as an entry of the list.
FormatEntry(row) ==
    [id |-> row.id, date |-> ToLocaleMonthDay(row.entry_date),
     time |-> row.entry_time, amount |-> row.amount_mg]

FormatEntries(data) == [i \in 1..Len(data) |-> FormatEntry(data[i])]

\* The key of .order('entry_date', desc).order('entry_time', desc).
OrderKey(row) ==
    MakeDate(row.entry_date.year, row.entry_date.month, row.entry_date.day,
             row.entry_time)

RECURSIVE SelectResults(_)
\* Lines 82-87: the rows newest first; rows with equal keys come in any order.
\* The first row is any row no other row is newer than, and so on.
SelectResults(rows) ==
    IF rows = {} THEN {<<>>}
    ELSE UNION {{<<r>> \o rest : rest \in SelectResults(rows \ {r})} :
                    r \in {x \in rows :
                              \A y \in rows : OrderKey(x) >= OrderKey(y)}}

\* Lines 117-128: the row addEntry asks the table to insert, for the form of
\* its render and the year of the wall clock.
InsertedRow(form, year) ==
    [entry_date |-> ToISODatePart(year, form.date[1]),
     entry_time |-> form.time[1],
     amount_mg |-> form.amount[1]]

\* Lines 142-147.
NewEntryData(data, form) ==
    [id |-> data.id, date |-> form.date[1], time |-> form.time[1],
     amount |-> form.amount[1]]

\* Line 149, setEntries([newEntryData, ...entries]): entries is the list of the
\* render the call was made in.
Prepend(e, seen) == <<e>> \o seen

(***************************************************************************)
(* The Recent Entries panel, lines 330-346.                                *)
(***************************************************************************)
Reverse(es) == [i \in 1..Len(es) |-> es[Len(es) + 1 - i]]

\* entries.slice(-3): the last three entries of the list.
SliceLast3(es) == SubSeq(es, IF Len(es) > 3 THEN Len(es) - 2 ELSE 1, Len(es))

\* Line 335: entries.slice(-3).reverse().
RecentEntries(es) == Reverse(SliceLast3(es))

(***************************************************************************)
(* The handlers of the component.                                          *)
(***************************************************************************)
\* The date, the time and the amount the user types in the form.
FormDates == {[month |-> 1, day |-> 1]}

FormTimes == {12}

FormAmounts == {100}

\* Line 291: the date field's onChange.
SetDate ==
    /\ mounted
    /\ \E d \in FormDates : newEntry' = [newEntry EXCEPT !.date = <<d>>]
    /\ UNCHANGED <<currentTime, entries, remainingCaffeine, loading, mounted,
                   timers, tz, db, loadCall, addCall, lastAdded, clock,
                   effectPending, adds>>

\* Line 304: the time field's onChange.
SetTime ==
    /\ mounted
    /\ \E t \in FormTimes : newEntry' = [newEntry EXCEPT !.time = <<t>>]
    /\ UNCHANGED <<currentTime, entries, remainingCaffeine, loading, mounted,
                   timers, tz, db, loadCall, addCall, lastAdded, clock,
                   effectPending, adds>>

\* Line 316: the amount field's onChange.
SetAmount ==
    /\ mounted
    /\ \E a \in FormAmounts : newEntry' = [newEntry EXCEPT !.amount = <<a>>]
    /\ UNCHANGED <<currentTime, entries, remainingCaffeine, loading, mounted,
                   timers, tz, db, loadCall, addCall, lastAdded, clock,
                   effectPending, adds>>

\* The table answers the select of lines 82-87.
SelectRows ==
    /\ loadCall.st = "sent"
    /\ \E data \in SelectResults(db) :
        loadCall' = [st |-> "replied", data |-> data]
    /\ UNCHANGED <<currentTime, entries, newEntry, remainingCaffeine, loading,
                   mounted, timers, tz, db, addCall, lastAdded, clock,
                   effectPending, adds>>

\* The select fails.
SelectFails ==
    /\ loadCall.st = "sent"
    /\ loadCall' = [st |-> "failed"]
    /\ UNCHANGED <<currentTime, entries, newEntry, remainingCaffeine, loading,
                   mounted, timers, tz, db, addCall, lastAdded, clock,
                   effectPending, adds>>

\* Lines 98-105: the list becomes the rows read, which is a change of a
\* dependency of the effect of lines 47-49.  setEntries changes nothing once
\* the component is unmounted.
LoadResolve ==
    /\ loadCall.st = "replied"
    /\ loadCall' = [st |-> "done", ok |-> TRUE, data |-> loadCall.data]
    /\ IF mounted
        THEN /\ entries' = FormatEntries(loadCall.data)
             /\ effectPending' = TRUE
        ELSE UNCHANGED <<entries, effectPending>>
    /\ UNCHANGED <<currentTime, newEntry, remainingCaffeine, loading, mounted,
                   timers, tz, db, addCall, lastAdded, clock, adds>>

\* Lines 89-96.
LoadReject ==
    /\ loadCall.st = "failed"
    /\ loadCall' = [st |-> "done", ok |-> FALSE]
    /\ UNCHANGED <<currentTime, entries, newEntry, remainingCaffeine, loading,
                   mounted, timers, tz, db, addCall, lastAdded, clock,
                   effectPending, adds>>

\* The click on Add Entry, lines 111-130 up to the await: the call keeps the
\* entries and the form of the render it was made in and takes the year from
\* the wall clock (line 118).  The button is disabled while a field of the
\* form is empty or loading is set, line 323.  The model follows a session
\* until MaxAdds calls have succeeded.
AddEntry ==
    /\ mounted
    /\ newEntry.date # <<>>
    /\ newEntry.time # <<>>
    /\ newEntry.amount # <<>>
    /\ ~loading
    /\ adds < MaxAdds
    /\ loading' = TRUE
    /\ addCall' = [st |-> "sent", entries |-> entries, newEntry |-> newEntry,
                   row |-> InsertedRow(newEntry, YearFromTime(clock))]
    /\ UNCHANGED <<currentTime, entries, newEntry, remainingCaffeine, mounted,
                   timers, tz, db, loadCall, lastAdded, clock, effectPending,
                   adds>>

\* The table inserts the row and answers with it, id included.
InsertRow ==
    /\ addCall.st = "sent"
    /\ LET data == [id |-> Cardinality(db) + 1,
                    entry_date |-> addCall.row.entry_date,
                    entry_time |-> addCall.row.entry_time,
                    amount_mg |-> addCall.row.amount_mg]
       IN  /\ db' = db \cup {data}
           /\ addCall' = [st |-> "replied", entries |-> addCall.entries,
                          newEntry |-> addCall.newEntry, data |-> data]
    /\ UNCHANGED <<currentTime, entries, newEntry, remainingCaffeine, loading,
                   mounted, timers, tz, loadCall, lastAdded, clock,
                   effectPending, adds>>

\* The insert fails.
InsertFails ==
    /\ addCall.st = "sent"
    /\ addCall' = [st |-> "failed"]
    /\ UNCHANGED <<currentTime, entries, newEntry, remainingCaffeine, loading,
                   mounted, timers, tz, db, loadCall, lastAdded, clock,
                   effectPending, adds>>

\* Lines 141-155 and 163-165: the new entry goes in front of the list of the
\* call's render, which is a change of a dependency of the effect of
\* lines 47-49, and the form is emptied.
AddResolve ==
    /\ addCall.st = "replied"
    /\ LET newEntryData == NewEntryData(addCall.data, addCall.newEntry)
       IN  /\ lastAdded' = newEntryData
           /\ adds' = adds + 1
           /\ IF mounted
               THEN /\ entries' = Prepend(newEntryData, addCall.entries)
                    /\ effectPending' = TRUE
                    /\ newEntry' = NoEntry
                    /\ loading' = FALSE
               ELSE UNCHANGED <<entries, effectPending, newEntry, loading>>
    /\ addCall' = IdleAdd
    /\ UNCHANGED <<currentTime, remainingCaffeine, mounted, timers, tz, db,
                   loadCall, clock>>

\* Lines 132-139 and 163-165.
AddReject ==
    /\ addCall.st = "failed"
    /\ loading' = IF mounted THEN FALSE ELSE loading
    /\ addCall' = IdleAdd
    /\ UNCHANGED <<currentTime, entries, newEntry, remainingCaffeine, mounted,
                   timers, tz, db, loadCall, lastAdded, clock, effectPending,
                   adds>>

UnmountLeaks ==
    /\ mounted
    /\ mounted' = FALSE
    /\ effectPending' = FALSE
    /\ UNCHANGED <<currentTime, entries, newEntry, remainingCaffeine, loading,
                   timers, tz, db, loadCall, addCall, lastAdded, clock,
                   adds>>

\* The view is torn down: the cleanup of line 38 clears the interval, and no
\* effect of the component runs any more.
Unmount ==
    /\ mounted
    /\ mounted' = FALSE
    /\ timers' = 0
    /\ effectPending' = FALSE
    /\ UNCHANGED <<currentTime, entries, newEntry, remainingCaffeine, loading,
                   tz, db, loadCall, addCall, lastAdded, clock, adds>>

(***************************************************************************)
(* Spec: a session of the mounted component.                               *)
(***************************************************************************)
\* The rows stored before the session, 100 mg each: on 2023-12-31 (odd ids)
\* and on 2023-12-30 (even ids), at 06:00 for id 1 and a half-life later in
\* the day for each further id.
StoredRow(i) ==
    [id |-> i,
     entry_date |-> [year |-> 2023, month |-> 12, day |-> 30 + (i % 2)],
     entry_time |-> HALF_LIFE * (i % 4),
     amount_mg |-> 100]

\* The UTC offsets of the browser: west of, at and east of Greenwich.
Offsets == {0 - 5, 0, 9}

\* The session starts two half-lives before the last instant of the model.
SessionStart == EndTime - 2 * HALF_LIFE

\* The state after the first render and its effects: the interval is
\* registered (line 34), loadEntries is in flight (line 43) and the residual
\* of the empty list is stored (line 48).
Init ==
    /\ currentTime = SessionStart
    /\ clock = SessionStart
    /\ entries = <<>>
    /\ newEntry = NoEntry
    /\ remainingCaffeine = CalculateRemainingCaffeine(<<>>, SessionStart)
    /\ effectPending = FALSE
    /\ loading = FALSE
    /\ mounted = TRUE
    /\ timers = 1
    /\ tz \in Offsets
    /\ \E n \in {0, MaxStoredRows} : db = {StoredRow(i) : i \in 1..n}
    /\ loadCall = [st |-> "sent"]
    /\ addCall = IdleAdd
    /\ lastAdded = NoneAdded
    /\ adds = 0

Next ==
    \/ ClockAdvance
    \/ Tick
    \/ RecalcEffect
    \/ SetDate
    \/ SetTime
    \/ SetAmount
    \/ SelectRows
    \/ SelectFails
    \/ LoadResolve
    \/ LoadReject
    \/ AddEntry
    \/ InsertRow
    \/ InsertFails
    \/ AddResolve
    \/ AddReject
    \/ Unmount

Spec == Init /\ [][Next]_vars

(***************************************************************************)
(* Claims about the session, checked under Spec.                           *)
(***************************************************************************)
EntryIds == {entries[i].id : i \in 1..Len(entries)}

\* C7: once loadEntries and addEntry have both completed successfully,
\* whatever their interleaving, the list holds every entry the load returned
\* and the newly created entry.
C7_NoLostEntries ==
    (/\ mounted
     /\ loadCall.st = "done"
     /\ loadCall.ok
     /\ addCall.st = "idle"
     /\ lastAdded # NoneAdded)
    => /\ lastAdded.id \in EntryIds
       /\ \A i \in 1..Len(loadCall.data) : loadCall.data[i].id \in EntryIds

\* C8: while the view is mounted exactly one interval is registered; every
\* change of currentTime is a tick of the mounted view that stores the wall
\* clock's instant and makes the effect due, and the effect stores the
\* residual of the current entry list at currentTime; once the view is torn
\* down no interval is left, no tick can fire and currentTime never changes
\* again.
C8_TimerLifecycle ==
    /\ [](mounted => timers = 1)
    /\ [](~mounted => (timers = 0 /\ ~ENABLED Tick))
    /\ [][currentTime' # currentTime =>
            /\ mounted
            /\ timers = 1
            /\ currentTime' = clock
            /\ currentTime' > currentTime
            /\ effectPending']_vars
    /\ [][(effectPending /\ ~effectPending' /\ mounted') =>
            remainingCaffeine' =
                CalculateRemainingCaffeine(entries, currentTime)]_vars
    /\ [][~mounted => currentTime' = currentTime]_vars

\* The view torn down after a tick and its recomputation, while the wall
\* clock still runs.
C8_Witness ==
    /\ ~mounted
    /\ timers = 0
    /\ currentTime > SessionStart
    /\ clock > currentTime
    /\ entries # <<>>
    /\ remainingCaffeine = CalculateRemainingCaffeine(entries, currentTime)
    /\ Less(Zero, remainingCaffeine)

\* C9: the entry that addEntry stored comes back from loadEntries with the
\* MM/DD the user entered, in every timezone, and so adds the same to the
\* residual after a reload as the locally added entry did.
C9_DateRoundTrip ==
    (mounted /\ lastAdded # NoneAdded) =>
        \A i \in 1..Len(entries) :
            entries[i].id = lastAdded.id =>
                /\ entries[i].date = lastAdded.date
                /\ EntryRemaining(entries[i], currentTime)
                       = EntryRemaining(lastAdded, currentTime)

\* C10: right after a successful addEntry, with the new entry at the head of
\* the list, the new entry is among the entries of the Recent Entries panel.
C10_NewestShown ==
    (/\ mounted
     /\ lastAdded # NoneAdded
     /\ entries # <<>>
     /\ entries[1] = lastAdded)
    => \E i \in 1..Len(RecentEntries(entries)) :
           RecentEntries(entries)[i].id = lastAdded.id

====
